---- MODULE Spec2Model ----
(***************************************************************************)
(* The monitors price-analysis run of                                      *)
(* notebooks/analysis/price_analysis_monitors.ipynb: load_cleaned_data,    *)
(* filter_products_by_platforms, analyze_price_differences and the         *)
(* __main__ block that sequences them.                                     *)
(*                                                                         *)
(* Text is a sequence of one-character strings, so that concatenation,     *)
(* str.replace and re.sub act on characters as they do in the code.        *)
(***************************************************************************)
EXTENDS Integers, Sequences, FiniteSets, TLC

VARIABLES fs, pc, df, filtered_df, grouped, todo, written, openFigures,
          log, called, exc, status

vars == <<fs, pc, df, filtered_df, grouped, todo, written, openFigures,
          log, called, exc, status>>

-----------------------------------------------------------------------------
(* Bounds of the input families.                                           *)

\* files per platform directory
MaxFiles == 2

\* listings per file in the listing-centred inputs
MaxListings == 2

-----------------------------------------------------------------------------
(* Characters and text.                                                    *)

UpperCase == <<"A","B","C","D","E","F","G","H","I","J","K","L","M",
               "N","O","P","Q","R","S","T","U","V","W","X","Y","Z">>

LowerCase == <<"a","b","c","d","e","f","g","h","i","j","k","l","m",
               "n","o","p","q","r","s","t","u","v","w","x","y","z">>

DigitChars == <<"0","1","2","3","4","5","6","7","8","9">>

\* the characters of the model in code-point order, as sorted() and
\* groupby order them
CodeOrder == <<" ", "-", ".", "/">> \o DigitChars \o <<":">> \o UpperCase
             \o <<"_">> \o LowerCase \o <<"|">>

Range(s) == {s[i] : i \in DOMAIN s}

IndexOf(s, c) == CHOOSE i \in DOMAIN s : s[i] = c

Code(c) == IndexOf(CodeOrder, c)

\* str < str
StrLess(a, b) ==
    \/ \E i \in DOMAIN a \cap DOMAIN b :
          /\ \A j \in 1..(i - 1) : a[j] = b[j]
          /\ Code(a[i]) < Code(b[i])
    \/ /\ Len(a) < Len(b)
       /\ \A j \in DOMAIN a : a[j] = b[j]

\* str.replace(old, new) for a one-character old
Replace(s, old, new) ==
    [i \in DOMAIN s |-> IF s[i] = old THEN new ELSE s[i]]

UpperSet == Range(UpperCase)

WordChars == Range(UpperCase) \cup Range(LowerCase) \cup Range(DigitChars)
             \cup {"_"}

\* \w of a str pattern, over the characters of the model
IsWordChar(c) == c \in WordChars

\* \s of a str pattern, over the characters of the model
IsSpaceChar(c) == c = " "

RECURSIVE IntToStr(_)
\* str(n) of a non-negative int: astype(str) on an int64 column
IntToStr(n) ==
    IF n < 10 THEN <<DigitChars[n + 1]>>
    ELSE IntToStr(n \div 10) \o <<DigitChars[(n % 10) + 1]>>

DigitSet == Range(DigitChars)

IsDigit(c) == c \in DigitSet

DigitValue(c) == IndexOf(DigitChars, c) - 1

-----------------------------------------------------------------------------
(* Values.                                                                 *)

\* NaT: the missing collection_date
NaT == [year |-> 0, month |-> 0, day |-> 0]

\* NaN: the missing cell of the unstacked aggregate
NaN == [sum |-> 0, n |-> 0]

Platforms == <<"ebay", "flipkart">>

Required == {"title", "price", "screen_size_in", "aspect_ratio",
             "refresh_rate_hz", "response_time_ms", "brand", "collection_date"}

-----------------------------------------------------------------------------
(* Field normalisation (load_cleaned_data, lines 131-141).                 *)

\* normalize_brand: no synonym table is given; an unrecognised value passes
\* through case-folded
NormalizeBrand(b) ==
    [i \in DOMAIN b |->
        IF b[i] \in UpperSet THEN LowerCase[IndexOf(UpperCase, b[i])]
        ELSE b[i]]

\* normalize_aspect_ratio: equivalent separators become ":"
NormalizeAspectRatio(a) == Replace(Replace(a, "x", ":"), "/", ":")

\* float(x) raises ValueError on text that is no number
IsNumeric(x) == x.num

\* round(float(x)) for x given in tenths: Python 3 rounds half to even
RoundTenths(t) ==
    LET q == t \div 10
        r == t % 10
    IN  IF r < 5 THEN q
        ELSE IF r > 5 THEN q + 1
        ELSE IF q % 2 = 0 THEN q ELSE q + 1

\* pd.to_datetime(..., errors='coerce').dt.date on YYYY-MM-DD text; anything
\* else in the model's inputs is a missing-value token and gives NaT
ToDate(s) ==
    IF /\ Len(s) = 10
       /\ s[5] = "-" /\ s[8] = "-"
       /\ \A i \in {1, 2, 3, 4, 6, 7, 9, 10} : IsDigit(s[i])
    THEN LET y == 1000 * DigitValue(s[1]) + 100 * DigitValue(s[2])
                  + 10 * DigitValue(s[3]) + DigitValue(s[4])
             m == 10 * DigitValue(s[6]) + DigitValue(s[7])
             d == 10 * DigitValue(s[9]) + DigitValue(s[10])
         IN  IF m \in 1..12 /\ d \in 1..31
             THEN [year |-> y, month |-> m, day |-> d]
             ELSE NaT
    ELSE NaT

\* one row of a file after lines 129-141
ProcessRow(r, platform) ==
    [brand            |-> NormalizeBrand(r.brand),
     screen_size_in   |-> RoundTenths(r.screen_size_in.tenths),
     aspect_ratio     |-> NormalizeAspectRatio(r.aspect_ratio),
     refresh_rate_hz  |-> r.refresh_rate_hz,
     response_time_ms |-> r.response_time_ms,
     collection_date  |-> ToDate(r.collection_date),
     price            |-> r.price,
     platform         |-> platform]

\* the try body of lines 119-143 raises: read_csv fails, or float(x) does
FileRaises(f) ==
    \/ ~f.readable
    \/ /\ Required \subseteq f.columns
       /\ \E i \in DOMAIN f.rows : ~IsNumeric(f.rows[i].screen_size_in)

\* lines 123-126: required_columns - set(df.columns) is not empty
MissingColumns(f) == Required \ f.columns

\* the frame appended to dfs for one file, or none when the file is skipped
FileFrames(f, platform) ==
    IF ~f.readable THEN <<>>
    ELSE IF MissingColumns(f) # {} THEN <<>>
    ELSE IF FileRaises(f) THEN <<>>
    ELSE <<[i \in DOMAIN f.rows |-> ProcessRow(f.rows[i], platform)]>>

\* the log record of one file: warning (line 125), error (line 146) or none
FileLog(f) ==
    IF ~f.readable THEN <<[level |-> "error", src |-> "load_cleaned_data"]>>
    ELSE IF MissingColumns(f) # {}
         THEN <<[level |-> "warning", src |-> "load_cleaned_data"]>>
    ELSE IF FileRaises(f)
         THEN <<[level |-> "error", src |-> "load_cleaned_data"]>>
    ELSE <<>>

RECURSIVE DirFramesBreak(_, _)
\* the loop leaving at the first skipped file (break for continue)
DirFramesBreak(files, platform) ==
    IF files = <<>> THEN <<>>
    ELSE IF FileFrames(Head(files), platform) = <<>> THEN <<>>
    ELSE FileFrames(Head(files), platform)
         \o DirFramesBreak(Tail(files), platform)

RECURSIVE DirFrames(_, _)
\* the loop of lines 117-147 over the files of one directory
DirFrames(files, platform) ==
    IF files = <<>> THEN <<>>
    ELSE FileFrames(Head(files), platform) \o DirFrames(Tail(files), platform)

RECURSIVE DirLog(_)
DirLog(files) ==
    IF files = <<>> THEN <<>> ELSE FileLog(Head(files)) \o DirLog(Tail(files))

\* lines 111-147 for one platform: a missing directory is skipped
PlatformFrames(dir, platform) ==
    IF ~dir.exists THEN <<>> ELSE DirFrames(dir.files, platform)

PlatformLog(dir) ==
    IF ~dir.exists THEN <<[level |-> "warning", src |-> "load_cleaned_data"]>>
    ELSE DirLog(dir.files)

RECURSIVE Concat(_)
\* pd.concat(dfs, ignore_index=True); pd.DataFrame() when dfs is empty
Concat(frames) ==
    IF frames = <<>> THEN <<>> ELSE Head(frames) \o Concat(Tail(frames))

\* load_cleaned_data
load_cleaned_data(files) ==
    Concat(PlatformFrames(files[Platforms[1]], Platforms[1])
           \o PlatformFrames(files[Platforms[2]], Platforms[2]))

\* what load_cleaned_data logs, in order
LoaderLog(files) ==
    PlatformLog(files[Platforms[1]]) \o PlatformLog(files[Platforms[2]])

-----------------------------------------------------------------------------
(* filter_products_by_platforms (lines 172-189).                           *)

\* lines 175-181: the fields joined by "|", the numbers through astype(str)
ProductId(r) ==
    r.brand \o <<"|">> \o IntToStr(r.screen_size_in) \o <<"|">>
    \o r.aspect_ratio \o <<"|">> \o IntToStr(r.refresh_rate_hz) \o <<"|">>
    \o IntToStr(r.response_time_ms)

\* line 175: the product_id column is added to the frame passed in
WithProductId(t) ==
    [i \in DOMAIN t |->
        [brand            |-> t[i].brand,
         screen_size_in   |-> t[i].screen_size_in,
         aspect_ratio     |-> t[i].aspect_ratio,
         refresh_rate_hz  |-> t[i].refresh_rate_hz,
         response_time_ms |-> t[i].response_time_ms,
         collection_date  |-> t[i].collection_date,
         price            |-> t[i].price,
         platform         |-> t[i].platform,
         product_id       |-> ProductId(t[i])]]

ProductIds(t) == {t[i].product_id : i \in DOMAIN t}

\* line 184: groupby('product_id')['platform'].unique()
PlatformGroups(t) ==
    [k \in ProductIds(t) |->
        {t[i].platform : i \in {j \in DOMAIN t : t[j].product_id = k}}]

\* a product id counted as cross-platform as soon as it has two rows
CrossPlatformByCount(t) ==
    {k \in ProductIds(t) :
        Cardinality({i \in DOMAIN t : t[i].product_id = k}) >= 2}

\* lines 185-187: len(set(x) & {'ebay', 'flipkart'}) >= 2
CrossPlatform(t) ==
    {k \in ProductIds(t) :
        Cardinality(PlatformGroups(t)[k] \cap {"ebay", "flipkart"}) >= 2}

\* the frame returned whole
FilterKeepsAll(t) == t

\* line 189: df[df['product_id'].isin(cross_platform)]
filter_products_by_platforms(t) ==
    LET cross_platform == CrossPlatform(t)
    IN  SelectSeq(t, LAMBDA r : r.product_id \in cross_platform)

-----------------------------------------------------------------------------
(* analyze_price_differences (lines 211-246).                              *)

\* DataFrame.empty
IsEmpty(t) == t = <<>>

RECURSIVE SumPrices(_)
SumPrices(rows) ==
    IF rows = <<>> THEN 0 ELSE Head(rows).price + SumPrices(Tail(rows))

\* groupby keeping the rows whose collection_date is missing (dropna=False)
DatedKeepsAll(t) == t

\* groupby keys drop rows whose collection_date is missing (dropna)
Dated(t) == SelectSeq(t, LAMBDA r : r.collection_date # NaT)

\* the group taken over product_id and platform only
GroupRowsAnyDate(t, k, p, d) ==
    SelectSeq(Dated(t), LAMBDA r : r.product_id = k /\ r.platform = p)

\* the rows of one (product_id, platform, collection_date) group
GroupRows(t, k, p, d) ==
    SelectSeq(Dated(t), LAMBDA r : /\ r.product_id = k
                                   /\ r.platform = p
                                   /\ r.collection_date = d)

\* ['price'].mean() of one group, kept exact as sum over count
Mean(rows) == [sum |-> SumPrices(rows), n |-> Len(rows)]

\* line 218: groupby(...)['price'].mean().unstack(level='platform'): one row
\* per (product_id, collection_date), one column per platform that has a
\* group, NaN where the platform has no group for that row
Aggregate(t) ==
    LET index   == {<<Dated(t)[i].product_id, Dated(t)[i].collection_date>> :
                       i \in DOMAIN Dated(t)}
        columns == {Dated(t)[i].platform : i \in DOMAIN Dated(t)}
    IN  [ix \in index |->
            [p \in columns |->
                IF GroupRows(t, ix[1], p, ix[2]) = <<>> THEN NaN
                ELSE Mean(GroupRows(t, ix[1], p, ix[2]))]]

RECURSIVE Sorted(_)
\* the keys of grouped.groupby(level=0), in sorted order
Sorted(S) ==
    IF S = {} THEN <<>>
    ELSE LET m == CHOOSE x \in S : \A y \in S \ {x} : StrLess(x, y)
         IN  <<m>> \o Sorted(S \ {m})

\* line 221: the product ids the loop visits
LoopKeys(g) == Sorted({ix[1] : ix \in DOMAIN g})

\* the sub-frame `data` of one product: its dates and their platform means
DataOf(g, k) ==
    [d \in {ix[2] : ix \in {jx \in DOMAIN g : jx[1] = k}} |-> g[<<k, d>>]]

\* re.sub(r"[^\w\s]", "", s): the characters removed
ReSubStrip(s) == SelectSeq(s, LAMBDA c : IsWordChar(c) \/ IsSpaceChar(c))

\* line 241: re.sub(r"[^\w\s]", "_", s)
ReSub(s) ==
    [i \in DOMAIN s |->
        IF IsWordChar(s[i]) \/ IsSpaceChar(s[i]) THEN s[i] ELSE "_"]

\* line 241
SanitizedTitle(product_id) == ReSub(Replace(product_id, "|", "_"))

\* line 242: f"Monitor_{sanitized_title}.png"
FileName(product_id) ==
    <<"M","o","n","i","t","o","r","_">> \o SanitizedTitle(product_id)
    \o <<".","p","n","g">>

\* line 222: plt.figure(figsize=(12, 6)) opens a figure
AfterFigure(n) == n + 1

\* line 225: data.plot(kind='bar', figsize=(12, 6)) is given no ax, so pandas
\* opens a figure of its own, which becomes the current figure
AfterDataPlot(n) == n + 1

\* line 246: plt.close() closes the current figure only
AfterClose(n) == IF n > 0 THEN n - 1 ELSE 0

\* the chart files on disk: the names written, each holding its last write
ChartFiles == {written[i].file : i \in DOMAIN written}

-----------------------------------------------------------------------------
(* Inputs: what data/cleaned/<platform>/monitors holds when the run starts. *)

SeqsUpTo(S, n) == UNION {[1..k -> S] : k \in 0..n}

Num(t) == [num |-> TRUE, tenths |-> t]

NotANumber == [num |-> FALSE, tenths |-> 0]

Day1 == <<"2","0","2","4","-","0","1","-","0","1">>

Day2 == <<"2","0","2","4","-","0","1","-","0","2">>

\* a missing-value token of read_csv
NoDate == <<"n","/","a">>

Listing(b, size, ar, date, price) ==
    [brand |-> b, screen_size_in |-> size, aspect_ratio |-> ar,
     refresh_rate_hz |-> 144, response_time_ms |-> 1,
     collection_date |-> date, price |-> price]

\* the listings of the listing-centred inputs: two brands whose product ids
\* differ in one punctuation character, a second spelling of the first
\* product, dated and undated rows
Listings ==
    {Listing(<<"a","-","b">>, Num(240), <<"1","6",":","9">>, Day1, 200),
     Listing(<<"A","-","B">>, Num(238), <<"1","6","x","9">>, Day1, 220),
     Listing(<<"a","-","b">>, Num(240), <<"1","6",":","9">>, NoDate, 200),
     Listing(<<"a","-","b">>, Num(240), <<"1","6",":","9">>, Day2, 220),
     Listing(<<"a","_","b">>, Num(240), <<"1","6",":","9">>, Day1, 200)}

File(readable, columns, rows) ==
    [readable |-> readable, columns |-> columns, rows |-> rows]

Dir(files) == [exists |-> TRUE, files |-> files]

NoDir == [exists |-> FALSE, files |-> <<>>]

\* the files of the file-centred inputs: unreadable, lacking a required
\* column, header only, one good row, one row whose size is no number
LoaderFiles ==
    LET row == Listing(<<"a","-","b">>, Num(240), <<"1","6",":","9">>, Day1, 200)
        bad == Listing(<<"a","-","b">>, NotANumber, <<"1","6",":","9">>, Day1, 200)
    IN  {File(FALSE, Required, <<>>),
         File(TRUE, Required \ {"price"}, <<row>>),
         File(TRUE, Required, <<>>),
         File(TRUE, Required, <<row>>),
         File(TRUE, Required \cup {"url"}, <<bad>>)}

\* file-centred: each platform directory is missing or holds up to MaxFiles
\* files of any kind
LoaderInputs ==
    LET dirs == {NoDir} \cup {Dir(s) : s \in SeqsUpTo(LoaderFiles, MaxFiles)}
    IN  [{"ebay", "flipkart"} -> dirs]

\* listing-centred: each platform directory holds one good file of up to
\* MaxListings listings
ListingInputs ==
    LET dirs == {Dir(<<File(TRUE, Required, rows)>>) :
                    rows \in SeqsUpTo(Listings, MaxListings)}
    IN  [{"ebay", "flipkart"} -> dirs]

-----------------------------------------------------------------------------
(* The run.                                                                *)

Info(src) == [level |-> "info", src |-> src]

Error(src) == [level |-> "error", src |-> src]

NoException == "none"

Init ==
    /\ fs \in LoaderInputs \cup ListingInputs
    /\ pc = "start"
    /\ df = <<>>
    /\ filtered_df = <<>>
    /\ grouped = <<>>
    /\ todo = <<>>
    /\ written = <<>>
    /\ openFigures = 0
    /\ log = <<>>
    /\ called = <<>>
    /\ exc = NoException
    /\ status = "running"

\* lines 276-277: log, then df = load_cleaned_data()
LoadData ==
    /\ pc = "start"
    /\ df' = load_cleaned_data(fs)
    /\ log' = log \o <<Info("main")>> \o LoaderLog(fs)
    /\ called' = Append(called, "load_cleaned_data")
    /\ pc' = "loaded"
    /\ UNCHANGED <<fs, filtered_df, grouped, todo, written, openFigures,
                   exc, status>>

\* exit(1) under a handler that catches SystemExit as well
ExitNoDataCaught ==
    /\ pc = "loaded"
    /\ IsEmpty(df)
    /\ log' = Append(log, Error("main"))
    /\ exc' = "SystemExit"
    /\ pc' = "raised"
    /\ UNCHANGED <<fs, df, filtered_df, grouped, todo, written, openFigures,
                   called, status>>

\* lines 279-281: exit(1) raises SystemExit, which `except Exception` does
\* not catch
ExitNoData ==
    /\ pc = "loaded"
    /\ IsEmpty(df)
    /\ log' = Append(log, Error("main"))
    /\ status' = 1
    /\ pc' = "exited"
    /\ UNCHANGED <<fs, df, filtered_df, grouped, todo, written, openFigures,
                   called, exc>>

\* lines 283-286
Filter ==
    /\ pc = "loaded"
    /\ ~IsEmpty(df)
    /\ df' = WithProductId(df)
    /\ filtered_df' = filter_products_by_platforms(WithProductId(df))
    /\ log' = log \o <<Info("main"), Info("main")>>
    /\ called' = Append(called, "filter_products_by_platforms")
    /\ pc' = "filtered"
    /\ UNCHANGED <<fs, grouped, todo, written, openFigures, exc, status>>

\* lines 213-215: nothing matched
AnalyzeNothing ==
    /\ pc = "filtered"
    /\ IsEmpty(filtered_df)
    /\ log' = Append(log, Info("analyze_price_differences"))
    /\ called' = Append(called, "analyze_price_differences")
    /\ pc' = "returned"
    /\ UNCHANGED <<fs, df, filtered_df, grouped, todo, written, openFigures,
                   exc, status>>

\* lines 218-221: aggregate and enter the loop
AnalyzeStart ==
    /\ pc = "filtered"
    /\ ~IsEmpty(filtered_df)
    /\ grouped' = Aggregate(filtered_df)
    /\ todo' = LoopKeys(Aggregate(filtered_df))
    /\ called' = Append(called, "analyze_price_differences")
    /\ pc' = "loop"
    /\ UNCHANGED <<fs, df, filtered_df, written, openFigures, log, exc, status>>

\* lines 222-246: one iteration that runs to its end
PlotProduct ==
    /\ pc = "loop"
    /\ todo # <<>>
    /\ LET product_id == Head(todo)
       IN  written' = Append(written,
                             [file       |-> FileName(product_id),
                              product_id |-> product_id,
                              data       |-> DataOf(grouped, product_id)])
    /\ openFigures' = AfterClose(AfterDataPlot(AfterFigure(openFigures)))
    /\ todo' = Tail(todo)
    /\ UNCHANGED <<fs, pc, df, filtered_df, grouped, log, called, exc, status>>

\* lines 222-245: one iteration in which a call raises: data.plot before it
\* has a figure of its own, a formatting call after it, or savefig; nothing
\* in the function catches it, so plt.close() (line 246) is never reached
PlotRaises ==
    /\ pc = "loop"
    /\ todo # <<>>
    /\ \E at \in {"plot", "format", "savefig"} :
          /\ exc' = at
          /\ openFigures' = IF at = "plot" THEN AfterFigure(openFigures)
                            ELSE AfterDataPlot(AfterFigure(openFigures))
    /\ pc' = "raised"
    /\ UNCHANGED <<fs, df, filtered_df, grouped, todo, written, log, called,
                   status>>

\* line 221: the loop is exhausted and the function returns
LoopEnd ==
    /\ pc = "loop"
    /\ todo = <<>>
    /\ pc' = "returned"
    /\ UNCHANGED <<fs, df, filtered_df, grouped, todo, written, openFigures,
                   log, called, exc, status>>

\* a handler that logs and then exits with status 1
CriticalErrorExits ==
    /\ pc = "raised"
    /\ log' = Append(log, Error("main"))
    /\ status' = 1
    /\ pc' = "exited"
    /\ UNCHANGED <<fs, df, filtered_df, grouped, todo, written, openFigures,
                   called, exc>>

\* lines 290-291: the exception is logged and the block ends
CriticalError ==
    /\ pc = "raised"
    /\ log' = Append(log, Error("main"))
    /\ pc' = "returned"
    /\ UNCHANGED <<fs, df, filtered_df, grouped, todo, written, openFigures,
                   called, exc, status>>

\* the script runs off its end: the interpreter exits with status 0
MainEnd ==
    /\ pc = "returned"
    /\ status' = 0
    /\ pc' = "exited"
    /\ UNCHANGED <<fs, df, filtered_df, grouped, todo, written, openFigures,
                   log, called, exc>>

Next ==
    \/ LoadData
    \/ ExitNoData
    \/ Filter
    \/ AnalyzeNothing
    \/ AnalyzeStart
    \/ PlotProduct
    \/ PlotRaises
    \/ LoopEnd
    \/ CriticalError
    \/ MainEnd

Spec == Init /\ [][Next]_vars

-----------------------------------------------------------------------------
(* Vocabulary of the properties, stated on the rows themselves.            *)

\* two rows describe the same product: their five identity fields agree
SameKey(r, q) ==
    /\ r.brand = q.brand
    /\ r.screen_size_in = q.screen_size_in
    /\ r.aspect_ratio = q.aspect_ratio
    /\ r.refresh_rate_hz = q.refresh_rate_hz
    /\ r.response_time_ms = q.response_time_ms

\* the product of row r has a row on platform p in table t
KeyOn(t, r, p) == \E i \in DOMAIN t : SameKey(t[i], r) /\ t[i].platform = p

OnBoth(t, r) == KeyOn(t, r, "ebay") /\ KeyOn(t, r, "flipkart")

Matcher == "filter_products_by_platforms"

Analyzer == "analyze_price_differences"

Ran(f) == \E i \in DOMAIN called : called[i] = f

-----------------------------------------------------------------------------
(* C1 *)

-----------------------------------------------------------------------------
(* C2 *)

\* a file the loader is to keep: readable, all required columns, every
\* screen size a number
Usable(f) ==
    /\ f.readable
    /\ Required \subseteq f.columns
    /\ \A i \in DOMAIN f.rows : f.rows[i].screen_size_in.num

Occurrences(t, v) == Cardinality({i \in DOMAIN t : t[i] = v})

RECURSIVE UsableOccurrences(_, _, _)
\* how often row value v is due from the usable files among `files`
UsableOccurrences(files, platform, v) ==
    IF files = <<>> THEN 0
    ELSE (IF Usable(Head(files))
          THEN Occurrences([i \in DOMAIN Head(files).rows |->
                               ProcessRow(Head(files).rows[i], platform)], v)
          ELSE 0)
         + UsableOccurrences(Tail(files), platform, v)

RECURSIVE UsableRows(_)
UsableRows(files) ==
    IF files = <<>> THEN 0
    ELSE (IF Usable(Head(files)) THEN Len(Head(files).rows) ELSE 0)
         + UsableRows(Tail(files))

\* C2: the table load_cleaned_data returns holds every row of every usable
\* file, tagged with that file's platform, as often as the usable files of
\* that platform hold it, and nothing else: no row of a file that lacks a
\* required column or whose processing raises, wherever that file stands
\* among the others.
C2_LoadedRows ==
    pc = "loaded" =>
       /\ Len(df) = UsableRows(fs["ebay"].files) + UsableRows(fs["flipkart"].files)
       /\ \A i \in DOMAIN df :
             Occurrences(df, df[i]) =
                UsableOccurrences(fs[df[i].platform].files, df[i].platform, df[i])

\* a skipped file stands before a usable one in one directory, the other
\* directory holds a file whose processing raises and a usable one
C2_Witness ==
    /\ pc = "loaded"
    /\ \E i, j \in DOMAIN fs["ebay"].files :
          /\ i < j
          /\ fs["ebay"].files[i].readable
          /\ ~(Required \subseteq fs["ebay"].files[i].columns)
          /\ fs["ebay"].files[i].rows # <<>>
          /\ Usable(fs["ebay"].files[j])
    /\ \E i, j \in DOMAIN fs["flipkart"].files :
          /\ i < j
          /\ ~Usable(fs["flipkart"].files[i])
          /\ Required \subseteq fs["flipkart"].files[i].columns
          /\ Usable(fs["flipkart"].files[j])
    /\ Len(df) = 2

-----------------------------------------------------------------------------
(* C3 *)

\* C3: when the loader has returned an empty table, only the loader has run,
\* no chart is written, the next step is the exit, and the run ends with an
\* error logged by the main block and exit status 1.
C3_EmptyTableExits ==
    (pc # "start" /\ IsEmpty(df)) =>
       /\ pc \in {"loaded", "exited"}
       /\ called = <<"load_cleaned_data">>
       /\ written = <<>>
       /\ pc = "loaded" => (ENABLED ExitNoData /\ ~ENABLED Filter)
       /\ pc = "exited" =>
             /\ status = 1
             /\ log[Len(log)] = Error("main")

\* the run has ended on an empty table though ebay held a usable file (header
\* only) and flipkart a file that was skipped
C3_Witness ==
    /\ pc = "exited"
    /\ IsEmpty(df)
    /\ status = 1
    /\ \E i \in DOMAIN fs["ebay"].files : Usable(fs["ebay"].files[i])
    /\ \E i \in DOMAIN fs["flipkart"].files : ~Usable(fs["flipkart"].files[i])

-----------------------------------------------------------------------------
(* C4 *)

MainErrors == Cardinality({i \in DOMAIN log : log[i] = Error("main")})

\* C4 as stated: a run in which an exception reached the top level ends
\* with a non-zero exit status.
C4_AsStated ==
    (pc = "exited" /\ exc # NoException) => status # 0

\* C4: an exception that reaches the top level is caught there once and
\* logged as an error by the main block; the run then ends normally, with
\* exit status 0.
C4_CaughtLoggedStatusZero ==
    /\ pc = "raised" => (ENABLED CriticalError /\ MainErrors = 0)
    /\ (pc \in {"returned", "exited"} /\ exc # NoException) =>
          /\ MainErrors = 1
          /\ log[Len(log)] = Error("main")
          /\ pc = "exited" => status = 0

\* savefig raised for the second product of the loop and the run has ended
C4_Witness ==
    /\ pc = "exited"
    /\ exc = "savefig"
    /\ Len(written) = 1
    /\ status = 0

-----------------------------------------------------------------------------
(* C5 *)

\* C5: when the table is not empty and no product has rows on both
\* platforms, the analyzer logs one informational record and nothing else,
\* no figure is opened, no chart is written, nothing is raised, and the run
\* ends with exit status 0.
C5_NoMatchNoCharts ==
    (pc \in {"returned", "exited"} /\ ~IsEmpty(df)
       /\ \A i \in DOMAIN df : ~OnBoth(df, df[i])) =>
       /\ written = <<>>
       /\ openFigures = 0
       /\ exc = NoException
       /\ log[Len(log)] = Info(Analyzer)
       /\ \A i \in DOMAIN log :
             /\ log[i].src = Analyzer => i = Len(log)
             /\ log[i].src = "main" => log[i].level = "info"
       /\ pc = "exited" => status = 0

\* both platforms have rows, no product is on both, the run has ended
C5_Witness ==
    /\ pc = "exited"
    /\ \E i \in DOMAIN df : df[i].platform = "ebay"
    /\ \E i \in DOMAIN df : df[i].platform = "flipkart"
    /\ \A i \in DOMAIN df : ~OnBoth(df, df[i])
    /\ status = 0

-----------------------------------------------------------------------------
(* C6 *)

\* the loop of analyze_price_differences has run to its end
LoopDone == pc = "returned" /\ exc = NoException /\ ~IsEmpty(filtered_df)

\* the product ids of the matched rows that have a collection date
DatedIds ==
    {filtered_df[i].product_id :
        i \in {j \in DOMAIN filtered_df : filtered_df[j].collection_date # NaT}}

\* C6 as stated: after analyze_price_differences has returned, there are as
\* many chart files as distinct product ids in the matched subset.
C6_AsStated ==
    LoopDone => Cardinality(ChartFiles) = Cardinality(ProductIds(filtered_df))

\* C6: after analyze_price_differences has returned, one chart has been
\* saved for each distinct product id that has a matched row with a
\* collection date, under that product's file name, and none for a product
\* whose matched rows all lack the date.
C6_OneChartPerDatedProduct ==
    LoopDone =>
       /\ Len(written) = Cardinality(DatedIds)
       /\ \A k \in DatedIds :
             \E i \in DOMAIN written :
                written[i].product_id = k /\ written[i].file = FileName(k)
       /\ \A i \in DOMAIN written : written[i].product_id \in DatedIds

\* two products matched, one with dated rows and one with undated rows only:
\* one chart
C6_Witness ==
    /\ LoopDone
    /\ Cardinality(ProductIds(filtered_df)) = 2
    /\ Cardinality(DatedIds) = 1
    /\ Len(written) = 1

-----------------------------------------------------------------------------
(* C7 *)

Prefix == <<"M","o","n","i","t","o","r","_">>

Suffix == <<".","p","n","g">>

\* the characters a file name keeps: letters, digits, underscore, space
Kept == {"_", " "} \cup Range(UpperCase) \cup Range(LowerCase)
        \cup Range(DigitChars)

\* the product id of the example: Dell|24|16:9|144|1
DellKey ==
    ProductId([brand |-> <<"D","e","l","l">>, screen_size_in |-> 24,
               aspect_ratio |-> <<"1","6",":","9">>,
               refresh_rate_hz |-> 144, response_time_ms |-> 1])

\* Monitor_Dell_24_16_9_144_1.png
DellFile ==
    <<"M","o","n","i","t","o","r","_","D","e","l","l","_","2","4","_",
      "1","6","_","9","_","1","4","4","_","1",".","p","n","g">>

\* the example of the file-name rule
DellExample == FileName(DellKey) = DellFile

\* the file name in which the characters outside Kept are removed
Stripped(k) ==
    Prefix \o SelectSeq(Replace(k, "|", "_"), LAMBDA c : c \in Kept) \o Suffix

\* C7 as stated: every chart is saved under "Monitor_", the product id with
\* "|" turned into "_" and every other character outside Kept removed,
\* ".png"; the example id maps to the example name.
C7_AsStated ==
    /\ \A i \in DOMAIN written : written[i].file = Stripped(written[i].product_id)
    /\ DellExample

\* C7: every chart is saved under "Monitor_", the product id with "|" and
\* every other character outside Kept turned into "_" one for one, ".png";
\* the example id maps to the example name.
C7_PunctuationBecomesUnderscore ==
    /\ \A i \in DOMAIN written :
          LET k == written[i].product_id
              f == written[i].file
          IN  /\ Len(f) = Len(Prefix) + Len(k) + Len(Suffix)
              /\ SubSeq(f, 1, Len(Prefix)) = Prefix
              /\ SubSeq(f, Len(f) - Len(Suffix) + 1, Len(f)) = Suffix
              /\ \A j \in DOMAIN k :
                    f[Len(Prefix) + j] = IF k[j] \in Kept THEN k[j] ELSE "_"
    /\ DellExample

\* a chart has been saved for a product id that holds ":" and "-"
C7_Witness ==
    \E i \in DOMAIN written :
       /\ ":" \in Range(written[i].product_id)
       /\ "-" \in Range(written[i].product_id)
       /\ "|" \in Range(written[i].product_id)

-----------------------------------------------------------------------------
(* C8 *)

RECURSIVE PriceSum(_, _)
\* the prices of the rows of t at the indices I, added up
PriceSum(t, I) ==
    IF I = {} THEN 0
    ELSE LET i == CHOOSE x \in I : TRUE
         IN  t[i].price + PriceSum(t, I \ {i})

\* the matched rows of product k on platform p dated d
TripleRows(k, p, d) ==
    {i \in DOMAIN filtered_df :
        /\ filtered_df[i].product_id = k
        /\ filtered_df[i].platform = p
        /\ filtered_df[i].collection_date = d}

\* analyze_price_differences has computed the aggregate
Aggregated == pc \in {"loop", "raised"} \/ (pc \in {"returned", "exited"} /\ written # <<>>)

\* C8: for every product, platform and date of a dated matched row, the
\* aggregate holds the mean of the prices of exactly the matched rows of
\* that product, platform and date; no aggregate row has a missing date;
\* and where a product and date have no row on a platform the cell is NaN.
C8_DailyMean ==
    Aggregated =>
       /\ \A i \in DOMAIN filtered_df :
             LET r == filtered_df[i]
                 I == TripleRows(r.product_id, r.platform, r.collection_date)
             IN  r.collection_date # NaT =>
                    /\ <<r.product_id, r.collection_date>> \in DOMAIN grouped
                    /\ r.platform \in
                          DOMAIN grouped[<<r.product_id, r.collection_date>>]
                    /\ grouped[<<r.product_id, r.collection_date>>][r.platform]
                          = [sum |-> PriceSum(filtered_df, I), n |-> Cardinality(I)]
       /\ \A ix \in DOMAIN grouped :
             /\ ix[2] # NaT
             /\ \A p \in DOMAIN grouped[ix] :
                   TripleRows(ix[1], p, ix[2]) = {} => grouped[ix][p] = NaN

\* two ebay rows of one product and date priced 200 and 220 have the mean
\* 210, and the flipkart cell of that date is NaN
C8_Witness ==
    /\ pc = "loop"
    /\ \E ix \in DOMAIN grouped :
          /\ DOMAIN grouped[ix] = {"ebay", "flipkart"}
          /\ grouped[ix]["ebay"].n = 2
          /\ grouped[ix]["ebay"].sum = 210 * grouped[ix]["ebay"].n
          /\ grouped[ix]["flipkart"] = NaN
          /\ \E i, j \in TripleRows(ix[1], "ebay", ix[2]) :
                filtered_df[i].price = 200 /\ filtered_df[j].price = 220

-----------------------------------------------------------------------------
(* C9 *)

\* C9: no figure is open when an iteration of the loop begins, when the loop
\* has ended, or when the function was left by an exception.
C9_NoOpenFigure ==
    pc \in {"loop", "raised", "returned", "exited"} => openFigures = 0

-----------------------------------------------------------------------------
(* C10 *)

\* C10: two charts saved for different product ids have different file
\* names.
C10_DistinctFileNames ==
    \A i, j \in DOMAIN written :
       written[i].product_id # written[j].product_id =>
          written[i].file # written[j].file

====
